---- MODULE Spec2Model ----
(***************************************************************************)
(* Region quadtree over integer coordinates (quadtree/quad_region.py).     *)
(*                                                                         *)
(* A QuadTree owns a canonical region and an optional root QuadNode.  A    *)
(* QuadNode is a record [region, origin, children, full]; an optional node *)
(* is the empty sequence (None) or a one-element sequence holding the node.*)
(* Python mutates nodes in place; the operators below return the mutated   *)
(* node instead.                                                           *)
(***************************************************************************)
EXTENDS Integers, Sequences, FiniteSets

VARIABLES requested, region, root, members, fresh, clean, op, arg, result, yielded

vars == <<requested, region, root, members, fresh, clean, op, arg, result, yielded>>

\* requested, region, root: the caller's region and the QuadTree's fields.
\* members: the points added and not removed since (history).
\* fresh: every add/remove call so far added a point of the region that was
\*        not a member (history).
\* clean: every add so far was given a point of the region that was not a
\*        member, and every remove a point that was a member (history).
\* op, arg, result, yielded: the latest call, its argument, its outcome and,
\*        for an iteration, the points it yielded.

(***************************************************************************)
(* Bounds of the model.                                                    *)
(***************************************************************************)
\* Largest height a tree may grow to (repeated add of a member grows it without limit).
MaxHeight == 2
\* Requested bounds of the constructor runs are drawn from -MaxCoord..MaxCoord.
MaxCoord == 10
\* Nodes of SpecNode have their lower corner in -MaxNodeOff..MaxNodeOff on each
\* axis and a side of 2, 4, .. 2 * MaxNodeHalf.
MaxNodeOff == 2
MaxNodeHalf == 2

(***************************************************************************)
(* adk.region: Region value type and coordinate indexes.                   *)
(***************************************************************************)
X == 1
Y == 2

Region(x_min, y_min, x_max, y_max) ==
    [x_min |-> x_min, y_min |-> y_min, x_max |-> x_max, y_max |-> y_max]

\* Quadrant constants
NE == 0
NW == 1
SW == 2
SE == 3

Quadrants == {NE, NW, SW, SE}

None == << >>

Some(n) == << n >>

Max2(a, b) == IF a >= b THEN a ELSE b

Min2(a, b) == IF a <= b THEN a ELSE b

(***************************************************************************)
(* smaller2k / larger2k                                                    *)
(***************************************************************************)
RECURSIVE Pow2(_)
Pow2(k) == IF k <= 0 THEN 1 ELSE 2 * Pow2(k - 1)

\* math.floor(math.log2(n)) for n >= 1
RECURSIVE FloorLog2(_)
FloorLog2(n) == IF n < 2 THEN 0 ELSE 1 + FloorLog2(n \div 2)

\* math.ceil(math.log2(n)) for n >= 1
CeilLog2(n) == IF n <= 1 THEN 0 ELSE 1 + FloorLog2(n - 1)

\* smaller2k rounding a negative bound toward zero.
smaller2k_towardZero(n) ==
    IF n = 0 THEN 0
    ELSE IF n < 0 THEN 0 - Pow2(FloorLog2(0 - n))
    ELSE Pow2(FloorLog2(n))

smaller2k(n) ==
    IF n = 0 THEN 0
    ELSE IF n < 0 THEN 0 - Pow2(CeilLog2(0 - n))
    ELSE Pow2(FloorLog2(n))

larger2k(n) ==
    IF n = 0 THEN 0
    ELSE IF n < 0 THEN 0 - Pow2(FloorLog2(0 - n))
    ELSE Pow2(CeilLog2(n))

\* containsPoint with the upper x bound closed.
containsPoint_closedMax(r, point) ==
    IF point[X] < r.x_min THEN FALSE
    ELSE IF point[X] > r.x_max THEN FALSE
    ELSE IF point[Y] < r.y_min THEN FALSE
    ELSE IF point[Y] >= r.y_max THEN FALSE
    ELSE TRUE

containsPoint(r, point) ==
    IF point[X] < r.x_min THEN FALSE
    ELSE IF point[X] >= r.x_max THEN FALSE
    ELSE IF point[Y] < r.y_min THEN FALSE
    ELSE IF point[Y] >= r.y_max THEN FALSE
    ELSE TRUE

(***************************************************************************)
(* QuadNode                                                                *)
(***************************************************************************)
\* QuadNode.__init__ ignoring the isFull argument.
QuadNode_ignoreFull(r, isFull) ==
    [region   |-> r,
     origin   |-> << r.x_min + ((r.x_max - r.x_min) \div 2),
                     r.y_min + ((r.y_max - r.y_min) \div 2) >>,
     children |-> [q \in Quadrants |-> None],
     full     |-> FALSE]

QuadNode(r, isFull) ==
    [region   |-> r,
     origin   |-> << r.x_min + ((r.x_max - r.x_min) \div 2),
                     r.y_min + ((r.y_max - r.y_min) \div 2) >>,
     children |-> [q \in Quadrants |-> None],
     full     |-> isFull]

isPoint(n) ==
    n.region.x_min + 1 = n.region.x_max /\ n.region.y_min + 1 = n.region.y_max

\* childrenFull forgetting the south-east child.
childrenFull_noSE(n) ==
    IF n.children[NE] = None \/ ~n.children[NE][1].full THEN FALSE
    ELSE IF n.children[NW] = None \/ ~n.children[NW][1].full THEN FALSE
    ELSE IF n.children[SW] = None \/ ~n.children[SW][1].full THEN FALSE
    ELSE TRUE

childrenFull(n) ==
    IF n.children[NE] = None \/ ~n.children[NE][1].full THEN FALSE
    ELSE IF n.children[NW] = None \/ ~n.children[NW][1].full THEN FALSE
    ELSE IF n.children[SW] = None \/ ~n.children[SW][1].full THEN FALSE
    ELSE IF n.children[SE] = None \/ ~n.children[SE][1].full THEN FALSE
    ELSE TRUE

\* childrenNull falling through to False.
childrenNull_neverTrue(n) ==
    IF n.children[NE] # None THEN FALSE
    ELSE IF n.children[NW] # None THEN FALSE
    ELSE IF n.children[SW] # None THEN FALSE
    ELSE IF n.children[SE] # None THEN FALSE
    ELSE FALSE

\* childrenNull looking at the northern children only.
childrenNull_northOnly(n) ==
    IF n.children[NE] # None THEN FALSE
    ELSE IF n.children[NW] # None THEN FALSE
    ELSE TRUE

childrenNull(n) ==
    IF n.children[NE] # None THEN FALSE
    ELSE IF n.children[NW] # None THEN FALSE
    ELSE IF n.children[SW] # None THEN FALSE
    ELSE IF n.children[SE] # None THEN FALSE
    ELSE TRUE

subregion(n, q) ==
    LET r == n.region IN
    IF q = NE THEN Region(n.origin[X], n.origin[Y], r.x_max, r.y_max)
    ELSE IF q = NW THEN Region(r.x_min, n.origin[Y], n.origin[X], r.y_max)
    ELSE IF q = SW THEN Region(r.x_min, r.y_min, n.origin[X], n.origin[Y])
    ELSE Region(n.origin[X], r.y_min, r.x_max, n.origin[Y])

\* subdivide creating empty children instead of retaining the full status.
subdivide_dropFull(n) ==
    [n EXCEPT !.children = [q \in Quadrants |-> Some(QuadNode(subregion(n, q), FALSE))]]

subdivide(n) ==
    [n EXCEPT !.children = [q \in Quadrants |-> Some(QuadNode(subregion(n, q), n.full))]]

\* quadrant sending a point on the origin's axes to the west / south side.
quadrant_strict(n, pt) ==
    IF pt[X] > n.origin[X]
    THEN (IF pt[Y] > n.origin[Y] THEN NE ELSE SE)
    ELSE (IF pt[Y] > n.origin[Y] THEN NW ELSE SW)

quadrant(n, pt) ==
    IF pt[X] >= n.origin[X]
    THEN (IF pt[Y] >= n.origin[Y] THEN NE ELSE SE)
    ELSE (IF pt[Y] >= n.origin[Y] THEN NW ELSE SW)

\* mergeIfFull without the merge.
mergeIfFull_never(n) == [node |-> n, ret |-> TRUE]

\* Lines 90-95 of QuadNode.add: merge four full children, report success.
mergeIfFull(n) ==
    IF childrenFull(n)
    THEN [node |-> [n EXCEPT !.full = TRUE, !.children = [q \in Quadrants |-> None]],
          ret  |-> TRUE]
    ELSE [node |-> n, ret |-> TRUE]

\* QuadNode.add: the node after the call and the value returned.
RECURSIVE QuadNode_add(_, _)
QuadNode_add(n, pt) ==
    LET q == quadrant(n, pt) IN
    IF n.children[q] = None
    THEN LET c0 == QuadNode(subregion(n, q), FALSE)
             c1 == IF isPoint(c0)
                   THEN [c0 EXCEPT !.full = TRUE]
                   ELSE QuadNode_add(c0, pt).node
         IN  mergeIfFull([n EXCEPT !.children[q] = Some(c1)])
    ELSE LET r  == QuadNode_add(n.children[q][1], pt)
             n1 == [n EXCEPT !.children[q] = Some(r.node)]
         IN  IF ~r.ret THEN [node |-> n1, ret |-> FALSE]
             ELSE mergeIfFull(n1)

\* QuadNode.remove: node is the replacement returned (None or the node),
\* updated the flag returned.  When the call raises (attribute access on an
\* absent child), raised is TRUE and node holds the node as mutated so far.
RECURSIVE QuadNode_remove(_, _)
QuadNode_remove(n, pt) ==
    IF isPoint(n)
    THEN [node |-> None, updated |-> TRUE, raised |-> FALSE]
    ELSE LET q  == quadrant(n, pt)
             n1 == IF n.full THEN [subdivide(n) EXCEPT !.full = FALSE] ELSE n
         IN  IF n1.children[q] = None
             THEN [node |-> Some(n1), updated |-> FALSE, raised |-> TRUE]
             ELSE LET r  == QuadNode_remove(n1.children[q][1], pt)
                      n2 == [n1 EXCEPT !.children[q] = r.node]
                  IN  IF r.raised
                      THEN [node |-> Some(n2), updated |-> FALSE, raised |-> TRUE]
                      ELSE IF childrenNull(n2)
                      THEN [node |-> None, updated |-> r.updated, raised |-> FALSE]
                      ELSE [node |-> Some(n2), updated |-> r.updated, raised |-> FALSE]

\* rangePoints with the x loop stopping one short.
rangePoints_short(r) ==
    LET w == Max2(0, r.x_max - r.x_min - 1)
        h == Max2(0, r.y_max - r.y_min)
    IN  [i \in 1..(w * h) |-> << r.x_min + ((i - 1) \div h), r.y_min + ((i - 1) % h) >>]

\* All points of a region, x outer loop, y inner loop (lines 241-243).
rangePoints(r) ==
    LET w == Max2(0, r.x_max - r.x_min)
        h == Max2(0, r.y_max - r.y_min)
    IN  [i \in 1..(w * h) |-> << r.x_min + ((i - 1) \div h), r.y_min + ((i - 1) % h) >>]

\* QuadNode.preorder over an optional node: the sequence of nodes visited.
RECURSIVE preorder(_)
preorder(on) ==
    IF on = None THEN << >>
    ELSE << on[1] >> \o preorder(on[1].children[NE]) \o preorder(on[1].children[NW])
                     \o preorder(on[1].children[SW]) \o preorder(on[1].children[SE])

\* Points one visited node contributes to the iteration (lines 239-245).
nodePoints(n) ==
    IF n.full THEN rangePoints(n.region)
    ELSE IF isPoint(n) THEN << << n.region.x_min, n.region.y_min >> >>
    ELSE << >>

RECURSIVE flatten(_)
flatten(ss) == IF ss = << >> THEN << >> ELSE ss[1] \o flatten(Tail(ss))

\* QuadTree.__iter__: the sequence of points yielded.
QuadTree_iter(rt) ==
    LET nodes == preorder(rt) IN
    flatten([i \in 1..Len(nodes) |-> nodePoints(nodes[i])])

\* QuadTree.__contains__ : the descent loop from node on.
RECURSIVE descend(_, _)
descend(on, pt) ==
    IF on = None THEN FALSE
    ELSE IF on[1].full THEN TRUE
    ELSE descend(on[1].children[quadrant(on[1], pt)], pt)

QuadTree_contains(rg, rt, pt) ==
    IF ~containsPoint(rg, pt) THEN FALSE ELSE descend(rt, pt)

\* QuadTree.__init__: the canonical region computed from the caller's region.
QuadTree_init(r) ==
    LET xmin2k == smaller2k(r.x_min)
        ymin2k == smaller2k(r.y_min)
        xmax2k == larger2k(r.x_max)
        ymax2k == larger2k(r.y_max)
        lo == Min2(xmin2k, ymin2k)
        hi == Max2(xmax2k, ymax2k)
    IN  Region(lo, lo, hi, hi)

\* QuadTree.add: the root after the call and the value returned.
QuadTree_add(rg, rt, pt) ==
    IF ~containsPoint(rg, pt) THEN [root |-> rt, ret |-> FALSE]
    ELSE LET r0 == IF rt = None THEN QuadNode(rg, FALSE) ELSE rt[1]
             r  == QuadNode_add(r0, pt)
         IN  [root |-> Some(r.node), ret |-> r.ret]

\* QuadTree.remove: the root after the call and its outcome
\* ("True", "False", or the name of the exception raised).
QuadTree_remove(rg, rt, pt) ==
    IF rt = None THEN [root |-> rt, outcome |-> "False"]
    ELSE IF ~containsPoint(rg, pt) THEN [root |-> rt, outcome |-> "False"]
    ELSE LET r == QuadNode_remove(rt[1], pt) IN
         IF r.raised THEN [root |-> r.node, outcome |-> "AttributeError"]
         ELSE [root |-> r.node, outcome |-> IF r.updated THEN "True" ELSE "False"]

(***************************************************************************)
(* Measures of a tree.                                                     *)
(***************************************************************************)
RECURSIVE height(_)
height(on) ==
    IF on = None THEN 0 - 1
    ELSE 1 + Max2(Max2(height(on[1].children[NE]), height(on[1].children[NW])),
                  Max2(height(on[1].children[SW]), height(on[1].children[SE])))

seqSet(s) == {s[i] : i \in DOMAIN s}

(***************************************************************************)
(* Inputs.                                                                 *)
(***************************************************************************)
\* Regions the trees of Spec are constructed from.
TreeRequests ==
    { Region(0, 0, 1, 1), Region(0, 0, 2, 2), Region(-2, -2, 0, 0), Region(0, 0, 3, 3),
      Region(-1, -1, 2, 2) }

\* Every integer point of a region.
regionPoints(r) == (r.x_min..(r.x_max - 1)) \X (r.y_min..(r.y_max - 1))

\* Every point of a region and of the one-wide border around it.
boxPoints(r) == ((r.x_min - 1)..r.x_max) \X ((r.y_min - 1)..r.y_max)

\* Points of the region the calls are made with: every point of a region of
\* side at most two; for larger regions the south-west quadrant and the origin.
insidePoints(r) ==
    IF r.x_max - r.x_min <= 2 THEN regionPoints(r)
    ELSE LET o == QuadNode(r, FALSE).origin IN
         { p \in regionPoints(r) : p[X] < o[X] /\ p[Y] < o[Y] } \cup { o }

\* Points outside the region the calls are made with: one point failing each
\* of the four tests of containsPoint.
outsidePoints(r) ==
    { << r.x_min - 1, r.y_min >>, << r.x_max, r.y_min >>,
      << r.x_min, r.y_min - 1 >>, << r.x_min, r.y_max >> }

Points(r) == insidePoints(r) \cup outsidePoints(r)

Coords == (0 - MaxCoord)..MaxCoord

\* Regions the constructor runs of SpecCtor are given: x_max > x_min, y_max > y_min.
CtorRequests ==
    { r \in [x_min : Coords, y_min : Coords, x_max : Coords, y_max : Coords] :
        r.x_max > r.x_min /\ r.y_max > r.y_min }

(***************************************************************************)
(* Specification of the set operations.                                    *)
(***************************************************************************)
Init ==
    \E req \in TreeRequests :
        /\ requested = req
        /\ region = QuadTree_init(req)
        /\ root = None
        /\ members = {}
        /\ fresh = TRUE
        /\ clean = TRUE
        /\ op = "init"
        /\ arg = << >>
        /\ result = "None"
        /\ yielded = << >>

Add(p) ==
    LET r == QuadTree_add(region, root, p) IN
    /\ height(r.root) <= MaxHeight
    /\ root' = r.root
    /\ members' = IF containsPoint(region, p) THEN members \cup {p} ELSE members
    /\ fresh' = (fresh /\ containsPoint(region, p) /\ p \notin members)
    /\ clean' = (clean /\ containsPoint(region, p) /\ p \notin members)
    /\ op' = "add"
    /\ arg' = p
    /\ result' = IF r.ret THEN "True" ELSE "False"
    /\ yielded' = << >>
    /\ UNCHANGED <<requested, region>>

Remove(p) ==
    LET r == QuadTree_remove(region, root, p) IN
    /\ root' = r.root
    /\ members' = members \ {p}
    /\ fresh' = FALSE
    /\ clean' = (clean /\ p \in members)
    /\ op' = "remove"
    /\ arg' = p
    /\ result' = r.outcome
    /\ yielded' = << >>
    /\ UNCHANGED <<requested, region>>

Contains(p) ==
    /\ op' = "contains"
    /\ arg' = p
    /\ result' = IF QuadTree_contains(region, root, p) THEN "True" ELSE "False"
    /\ yielded' = << >>
    /\ UNCHANGED <<requested, region, root, members, fresh, clean>>

Iterate ==
    /\ op' = "iter"
    /\ arg' = << >>
    /\ result' = "None"
    /\ yielded' = QuadTree_iter(root)
    /\ UNCHANGED <<requested, region, root, members, fresh, clean>>

Next ==
    \/ \E p \in Points(region) : Add(p)
    \/ \E p \in Points(region) : Remove(p)
    \/ \E p \in Points(region) : Contains(p)
    \/ Iterate

Spec == Init /\ [][Next]_vars

(***************************************************************************)
(* Specification of the constructor: the caller's region is copied (line   *)
(* 187), then expanded to the canonical region (lines 189-195).            *)
(***************************************************************************)
InitCtor ==
    \E req \in CtorRequests :
        /\ requested = req
        /\ region = req
        /\ root = None
        /\ members = {}
        /\ fresh = TRUE
        /\ clean = TRUE
        /\ op = "new"
        /\ arg = << >>
        /\ result = "None"
        /\ yielded = << >>

Construct ==
    /\ op = "new"
    /\ region' = QuadTree_init(region)
    /\ op' = "init"
    /\ UNCHANGED <<requested, root, members, fresh, clean, arg, result, yielded>>

NextCtor == Construct

SpecCtor == InitCtor /\ [][NextCtor]_vars

(***************************************************************************)
(* Specification of a single node: a QuadNode over a square of even side   *)
(* is constructed, subdivided, and asked for the quadrant of its points.   *)
(***************************************************************************)
NodeRegions ==
    { Region(a, b, a + 2 * h, b + 2 * h) :
        a \in (0 - MaxNodeOff)..MaxNodeOff,
        b \in (0 - MaxNodeOff)..MaxNodeOff,
        h \in 1..MaxNodeHalf }

quadrantName(q) ==
    IF q = NE THEN "NE" ELSE IF q = NW THEN "NW" ELSE IF q = SW THEN "SW" ELSE "SE"

InitNode ==
    \E r \in NodeRegions, isFull \in BOOLEAN :
        /\ requested = r
        /\ region = r
        /\ root = Some(QuadNode(r, isFull))
        /\ members = {}
        /\ fresh = TRUE
        /\ clean = TRUE
        /\ op = "node"
        /\ arg = << >>
        /\ result = "None"
        /\ yielded = << >>

Subdivide ==
    /\ root' = Some(subdivide(root[1]))
    /\ op' = "subdivide"
    /\ arg' = << >>
    /\ result' = "None"
    /\ UNCHANGED <<requested, region, members, fresh, clean, yielded>>

Quadrant(p) ==
    /\ op' = "quadrant"
    /\ arg' = p
    /\ result' = quadrantName(quadrant(root[1], p))
    /\ UNCHANGED <<requested, region, root, members, fresh, clean, yielded>>

NextNode ==
    \/ Subdivide
    \/ \E p \in regionPoints(region) : Quadrant(p)

SpecNode == InitNode /\ [][NextNode]_vars

(***************************************************************************)
(* Properties.                                                             *)
(***************************************************************************)
IsPow2(n) == \E k \in 0..Max2(0, n) : Pow2(k) = n

\* A canonical region (0, 0, 2^k, 2^k).
originSquare(r) ==
    r.x_min = 0 /\ r.y_min = 0 /\ r.x_max = r.y_max /\ IsPow2(r.x_max)

nodesOf(rt) == seqSet(preorder(rt))

noDuplicates(s) == \A i, j \in DOMAIN s : i # j => s[i] # s[j]

\* p lies outside region r, as stated on the four bounds.
outside(r, p) ==
    p[X] < r.x_min \/ p[X] >= r.x_max \/ p[Y] < r.y_min \/ p[Y] >= r.y_max

\* C1: over a canonical region (0,0,2^k,2^k), every point that was added and
\* has not been the argument of a remove since is reported present by
\* `in`, whatever adds and removes of other points came after it.
C1_AddedStaysMember ==
    originSquare(region) =>
        \A p \in members : QuadTree_contains(region, root, p)

\* C1 witness: a remove of another point succeeded while an earlier added
\* point is still a member and reported present.
C1_Witness ==
    /\ originSquare(region)
    /\ op = "remove" /\ result = "True"
    /\ \E p \in members : p # arg /\ QuadTree_contains(region, root, p)

\* C2: remove(p) of a point that is a member returns True, leaves p absent
\* and leaves the membership of every other point as it was.
C2_RemoveMember ==
    [][ (op' = "remove" /\ QuadTree_contains(region, root, arg'))
        => /\ result' = "True"
           /\ ~QuadTree_contains(region', root', arg')
           /\ \A q \in boxPoints(region) \ {arg'} :
                QuadTree_contains(region', root', q) = QuadTree_contains(region, root, q)
      ]_vars

\* C2 witness: a successful remove has split a compressed block: the tree of
\* side two that held all four points now holds the three others.
C2_Witness ==
    /\ op = "remove" /\ result = "True"
    /\ region.x_max - region.x_min = 2
    /\ Cardinality(members) = 3
    /\ root # None /\ ~root[1].full
    /\ \A q \in regionPoints(region) \ {arg} : QuadTree_contains(region, root, q)

\* C3: the points an iteration yields are exactly the points added and not
\* removed since, which are exactly the points `in` reports present; an
\* empty tree yields nothing.
C3_IterationIsMembers ==
    op = "iter" =>
        /\ seqSet(yielded) = members
        /\ \A p \in boxPoints(region) :
              (p \in seqSet(yielded)) <=> QuadTree_contains(region, root, p)
        /\ (root = None => yielded = << >>)

\* C3 witness: an iteration over a tree that has seen a removal yields two or
\* more points.
C3_Witness ==
    /\ op = "iter" /\ ~fresh
    /\ Cardinality(seqSet(yielded)) >= 2
    /\ Cardinality(members) < Cardinality(regionPoints(region))

\* C4: an iteration yields no point more than once.
C4_NoDuplicates ==
    op = "iter" => noDuplicates(yielded)

\* C5: remove(p) of a point inside the region that is not a member returns
\* False, raises nothing and leaves the tree unchanged.
C5_RemoveAbsent ==
    [][ (op' = "remove" /\ ~outside(region, arg') /\ ~QuadTree_contains(region, root, arg'))
        => (result' = "False" /\ root' = root)
      ]_vars

\* C6: a point is rejected by the region test exactly when it is below a
\* lower bound or at or above an upper bound; add, remove and `in` of such
\* a point return False and leave the tree as it was.
C6_OutsideRegion ==
    [][ /\ \A p \in boxPoints(region) : (~containsPoint(region, p)) <=> outside(region, p)
        /\ (op' \in {"add", "remove", "contains"} /\ outside(region, arg'))
            => (result' = "False" /\ root' = root /\ region' = region)
      ]_vars

\* C6 witness: add of a point on the open upper bound was refused on an
\* empty tree, and root is still absent.
C6_Witness ==
    /\ op = "add" /\ result = "False"
    /\ arg[X] = region.x_max
    /\ root = None

\* C7: over a canonical region (0,0,2^k,2^k), once every point of the region
\* has been added exactly once (no other add or remove), the root is full
\* and has no children.
C7_FilledRootFull ==
    (fresh /\ originSquare(region) /\ members = regionPoints(region))
        => (root # None /\ root[1].full /\ childrenNull(root[1]))

\* C8: every node whose full flag is set has no children.
C8_FullHasNoChildren ==
    \A n \in nodesOf(root) : n.full => childrenNull(n)

\* C9: the canonical region the constructor computes has a side that is a
\* power of two.
C9_SidePowerOfTwo ==
    op = "init" => IsPow2(region.x_max - region.x_min)

\* C10: the canonical region is square, has equal lower bounds and equal
\* upper bounds, and encloses the requested region.
C10_SquareEnclosing ==
    op = "init" =>
        /\ region.x_max - region.x_min = region.y_max - region.y_min
        /\ region.x_min = region.y_min
        /\ region.x_max = region.y_max
        /\ region.x_min <= requested.x_min /\ region.y_min <= requested.y_min
        /\ region.x_max >= requested.x_max /\ region.y_max >= requested.y_max

\* C10 witness: the region constructed from (3,3,10,10), and one constructed
\* from negative bounds.
C10_Witness ==
    /\ op = "init"
    /\ \/ requested = Region(3, 3, 10, 10) /\ region = Region(2, 2, 16, 16)
       \/ requested = Region(-5, -3, -1, 2) /\ region = Region(-8, -8, 2, 2)

\* C11: add(p) of a point of the region that is already a member returns False.
C11_AddExistingReturnsFalse ==
    [][ (op' = "add" /\ ~outside(region, arg') /\ QuadTree_contains(region, root, arg'))
        => result' = "False"
      ]_vars

\* C12: add(p) of a point that is already a member leaves the tree as it was
\* (no node created, removed or re-flagged).
C12_AddExistingNoChange ==
    [][ (op' = "add" /\ QuadTree_contains(region, root, arg'))
        => root' = root
      ]_vars

\* C13: over a canonical region (0,0,2^k,2^k) the height of the tree is at
\* most k.
C13_HeightAtMostLog2 ==
    originSquare(region) => height(root) <= FloorLog2(region.x_max - region.x_min)

\* C14: root is absent exactly when no point has been added and not removed
\* since, which is exactly when `in` reports no point of the region present.
C14_RootAbsentIffEmpty ==
    /\ (root = None) <=> (members = {})
    /\ (root = None) <=> (\A p \in regionPoints(region) : ~QuadTree_contains(region, root, p))

\* C14 witness: removing the last member of a tree of side four (root, a
\* quadrant node and a point node) has left root absent.
C14_Witness ==
    /\ op = "remove" /\ result = "True"
    /\ region.x_max - region.x_min = 4
    /\ root = None /\ members = {}

\* C15: no node with full == False has all four children present and full.
C15_NoUnmergedFullChildren ==
    \A n \in nodesOf(root) : ~n.full => ~childrenFull(n)

\* C15 witness: in a tree of side four a remove has split a full quadrant,
\* which is now not full and keeps three full children.
C15_Witness ==
    /\ op = "remove" /\ result = "True"
    /\ region.x_max - region.x_min = 4
    /\ \E n \in nodesOf(root) :
          /\ ~n.full /\ n.region.x_max - n.region.x_min = 2
          /\ n.children[quadrant(n, arg)] = None
          /\ \A q \in Quadrants \ {quadrant(n, arg)} :
                n.children[q] # None /\ n.children[q][1].full

\* C16: every point of the region of a node with full == True has been added
\* and not removed since.
C16_FullNodesAreMembers ==
    \A n \in nodesOf(root) :
        n.full => \A p \in regionPoints(n.region) : p \in members

\* C16 witness: after a removal elsewhere, an add has merged four points into
\* a full node that is not a point node.
C16_Witness ==
    /\ op = "add" /\ ~fresh
    /\ \E n \in nodesOf(root) :
          n.full /\ ~isPoint(n) /\ containsPoint(n.region, arg)

\* C17: the four children a subdivided node of even side gets are squares of
\* half its side, pairwise disjoint, and together cover its region; every
\* point of the region lies in the subregion of its quadrant, a point with
\* x >= origin.x on the east side and a point with y >= origin.y on the
\* north side (so points on the origin's axes go east / north).
C17_QuadrantsPartition ==
    LET n    == root[1]
        half == (n.region.x_max - n.region.x_min) \div 2
        sub(q) == n.children[q][1].region
    IN  /\ op = "subdivide" =>
             /\ \A q \in Quadrants :
                   /\ n.children[q] # None
                   /\ sub(q) = subregion(n, q)
                   /\ sub(q).x_max - sub(q).x_min = half
                   /\ sub(q).y_max - sub(q).y_min = half
             /\ \A q1, q2 \in Quadrants :
                   q1 # q2 => regionPoints(sub(q1)) \cap regionPoints(sub(q2)) = {}
             /\ UNION { regionPoints(sub(q)) : q \in Quadrants } = regionPoints(n.region)
        /\ op = "quadrant" =>
             \E q \in Quadrants :
                   /\ result = quadrantName(q)
                   /\ containsPoint(subregion(n, q), arg)
                   /\ (arg[X] >= n.origin[X]) <=> (q \in {NE, SE})
                   /\ (arg[Y] >= n.origin[Y]) <=> (q \in {NE, NW})

\* C17 witness: a subdivided node of side four away from (0,0) has been asked
\* for the quadrant of its origin and answered NE.
C17_Witness ==
    /\ op = "quadrant" /\ result = "NE"
    /\ arg = root[1].origin
    /\ region.x_max - region.x_min = 4 /\ region.x_min < 0
    /\ \A q \in Quadrants : root[1].children[q] # None

\* C18: every node of the tree has a square region whose side is a power of
\* two, and every child's side is exactly half its parent's side.
C18_NodesHalveParent ==
    \A n \in nodesOf(root) :
        LET side == n.region.x_max - n.region.x_min IN
        /\ n.region.y_max - n.region.y_min = side
        /\ IsPow2(side)
        /\ \A q \in Quadrants :
              n.children[q] # None =>
                 2 * (n.children[q][1].region.x_max - n.children[q][1].region.x_min) = side

\* The tree obtained by adding the points of S, in one fixed order, to rt.
RECURSIVE rebuild(_, _, _)
rebuild(rg, rt, S) ==
    IF S = {} THEN rt
    ELSE LET p == CHOOSE x \in S : TRUE IN
         rebuild(rg, QuadTree_add(rg, rt, p).root, S \ {p})

\* C19: over a canonical region (0,0,2^k,2^k), as long as add was only given
\* non-members of the region and remove only members, the tree is the one
\* obtained by adding the current members in one fixed order to an empty
\* tree (so it depends on the set of members alone), and adding then
\* removing a non-member gives back the same tree.
C19_HistoryIndependent ==
    (clean /\ originSquare(region)) =>
        /\ root = rebuild(region, None, members)
        /\ \A p \in regionPoints(region) \ members :
              QuadTree_remove(region, QuadTree_add(region, root, p).root, p).root = root

\* C19 witness: in a tree of side four, after adds of non-members and removes
\* of members only, a remove has left two or more members.
C19_Witness ==
    /\ clean /\ originSquare(region)
    /\ region.x_max = 4
    /\ op = "remove" /\ result = "True"
    /\ Cardinality(members) >= 2

TypeOK ==
    /\ op \in {"new", "init", "add", "remove", "contains", "iter"}
    /\ result \in {"None", "True", "False", "AttributeError"}
    /\ height(root) <= MaxHeight
====
